---- MODULE Spec2Model ----
(***************************************************************************)
(* A model of the risk-scoring engine of src/src/risk_map.py (class        *)
(* RiskMap): the constructor's weight normalisation, the population        *)
(* density, the min-max normaliser, the weighted composite score with its  *)
(* fixed-edge classification, and the ranking query.                       *)
(*                                                                         *)
(* Numbers are exact rationals <<n, d>> in lowest terms with d > 0; the    *)
(* three non-finite floating-point values keep d = 0: NaN = <<0, 0>>,      *)
(* +inf = <<1, 0>>, -inf = <<-1, 0>>.  Rounding of binary floating point   *)
(* is not modelled.                                                        *)
(*                                                                         *)
(* A Python None (and every falsy optional argument) is the empty          *)
(* sequence <<>>; an optional argument that is given is a one-element      *)
(* sequence.  A table that is None is the record [kind |-> "None"].        *)
(***************************************************************************)
EXTENDS Integers, Sequences, FiniteSets, TLC

VARIABLES
    zip_code_data,  \* self.zip_code_data: the area table, or None
    risk_weights,   \* self.risk_weights: the effective weights
    risk_scores,    \* self.risk_scores: the cached result table, or None
    risk_map_gdf,   \* self.risk_map_gdf: the combined table, or None
    weights_arg,    \* the risk_weights argument the constructor was given
    scored,         \* TRUE once a calculate_risk_scores call has succeeded
    call,           \* the last call made: [op, args, raised, ret]
    threads,        \* each thread's calculate_risk_scores call in progress:
                    \* [pc, args, results]
    writer          \* the thread that last assigned each cached table

vars == <<zip_code_data, risk_weights, risk_scores, risk_map_gdf,
          weights_arg, scored, call, threads, writer>>

----------------------------------------------------------------------------
(* Bounds of the model.                                                    *)

\* The area tables of Spec have from 1 to MaxRows rows.
MaxRows == 2
\* Raw population values of Spec range over 0..MaxPop.
MaxPop == 1
\* The area tables of SpecScore have from 1 to MaxAreas rows.
MaxAreas == 3
\* Raw healthcare capacities of SpecScore range over 0..MaxVal.
MaxVal == 2
\* Raw weights given to the constructor range over -1..MaxWeight.
MaxWeight == 2
\* top_n ranges over None and 0..MaxTopN.
MaxTopN == 2
\* Raw areas of SpecArea range over -MaxArea..MaxArea.
MaxArea == 1

----------------------------------------------------------------------------
(* Exact arithmetic with the IEEE special values.                          *)

Abs(x) == IF x < 0 THEN -x ELSE x

RECURSIVE GCD(_, _)
GCD(a, b) == IF b = 0 THEN a ELSE GCD(b, a % b)

\* The rational n/d (d # 0) in lowest terms with a positive denominator.
Q(n, d) ==
    LET g == GCD(Abs(n), Abs(d))
        s == IF d < 0 THEN -1 ELSE 1
    IN  <<(s * n) \div g, (s * d) \div g>>

R(k) == <<k, 1>>
Zero == R(0)
One == R(1)
NaN == <<0, 0>>
PosInf == <<1, 0>>
NegInf == <<-1, 0>>

IsNaN(x) == x = NaN
IsInf(x) == x = PosInf \/ x = NegInf
IsFinite(x) == x[2] # 0

\* x + y, x - y, x * y: NaN when an operand is NaN.  Infinite operands are
\* never passed: the only operation producing them is FDiv, and its caller
\* replaces them at once (risk_map.py:155).
FAdd(x, y) ==
    IF IsNaN(x) \/ IsNaN(y) THEN NaN
    ELSE Q(x[1] * y[2] + y[1] * x[2], x[2] * y[2])
FNeg(x) == IF IsNaN(x) THEN NaN ELSE <<-x[1], x[2]>>
FSub(x, y) == FAdd(x, FNeg(y))
FMul(x, y) ==
    IF IsNaN(x) \/ IsNaN(y) THEN NaN
    ELSE Q(x[1] * y[1], x[2] * y[2])

\* x / y for finite or NaN operands, as numpy divides floats: x/0 is an
\* infinity of x's sign, 0/0 is NaN.
FDiv(x, y) ==
    IF IsNaN(x) \/ IsNaN(y) THEN NaN
    ELSE IF y[1] = 0
         THEN (IF x[1] = 0 THEN NaN ELSE IF x[1] > 0 THEN PosInf ELSE NegInf)
    ELSE Q(x[1] * y[2], x[2] * y[1])

\* Comparisons: every comparison with NaN is false.
FLt(x, y) == ~IsNaN(x) /\ ~IsNaN(y) /\ x[1] * y[2] < y[1] * x[2]
FLe(x, y) == ~IsNaN(x) /\ ~IsNaN(y) /\ x[1] * y[2] <= y[1] * x[2]
FGt(x, y) == FLt(y, x)
FGe(x, y) == FLe(y, x)

----------------------------------------------------------------------------
(* Tables.                                                                 *)
(* A DataFrame is [kind, geometry, index, data, garea]: index is the       *)
(* number of rows (a RangeIndex 1..index), data maps each column name to   *)
(* its sequence of values.  geometry is "none" (no active geometry         *)
(* column), "naive" (geometry without a CRS) or "crs"; garea is what       *)
(* to_crs('EPSG:3857').geometry.area / 1e6 yields per row.                 *)

None == [kind |-> "None"]
IsNone(t) == t.kind = "None"

Columns(t) == DOMAIN t.data
Rows(t) == 1 .. t.index

\* df[col] = values: the frame with the column added (or replaced).
SetColumn(t, col, values) ==
    [t EXCEPT !.data = [c \in (DOMAIN t.data) \cup {col} |->
                            IF c = col THEN values ELSE t.data[c]]]

\* FillNa0 leaving the missing values in.
FillNa0Skipped(series) == series

\* series.fillna(0)
FillNa0(series) ==
    [i \in DOMAIN series |-> IF IsNaN(series[i]) THEN Zero ELSE series[i]]

\* series.replace([np.inf, -np.inf], 0)
ReplaceInf0(series) ==
    [i \in DOMAIN series |-> IF IsInf(series[i]) THEN Zero ELSE series[i]]

\* pd.Series(v, index=series.index)
Constant(series, v) == [i \in DOMAIN series |-> v]

RECURSIVE SeriesMinFrom(_, _, _)
SeriesMinFrom(series, i, acc) ==
    IF i > Len(series) THEN acc
    ELSE SeriesMinFrom(series, i + 1,
            IF IsNaN(series[i]) THEN acc
            ELSE IF IsNaN(acc) \/ FLt(series[i], acc) THEN series[i] ELSE acc)

RECURSIVE SeriesMaxFrom(_, _, _)
SeriesMaxFrom(series, i, acc) ==
    IF i > Len(series) THEN acc
    ELSE SeriesMaxFrom(series, i + 1,
            IF IsNaN(series[i]) THEN acc
            ELSE IF IsNaN(acc) \/ FGt(series[i], acc) THEN series[i] ELSE acc)

\* series.min(), series.max(): missing values are skipped; NaN when there
\* is no value at all.
SeriesMin(series) == SeriesMinFrom(series, 1, NaN)
SeriesMax(series) == SeriesMaxFrom(series, 1, NaN)

----------------------------------------------------------------------------
(* The engine.  self is the record of the four attributes of a RiskMap;    *)
(* a method is an operator from self and its arguments to an outcome       *)
(* [self, raised, ret]: the engine after the call, the exception raised    *)
(* ("ok" when none) and the value returned.                                *)

Factors == {"population_density", "bird_density", "water_proximity",
            "healthcare_capacity", "vulnerability_index"}

NormName == [population_density  |-> "population_density_norm",
             bird_density        |-> "bird_density_norm",
             water_proximity     |-> "water_proximity_norm",
             healthcare_capacity |-> "healthcare_capacity_norm",
             vulnerability_index |-> "vulnerability_index_norm"]

default_weights == [population_density  |-> Q(3, 10),
                    bird_density        |-> Q(2, 5),
                    water_proximity     |-> Q(3, 20),
                    healthcare_capacity |-> Q(1, 10),
                    vulnerability_index |-> Q(1, 20)]

RECURSIVE SumValues(_, _)
SumValues(d, keys) ==
    IF keys = {} THEN Zero
    ELSE LET k == CHOOSE x \in keys : TRUE
         IN  FAdd(d[k], SumValues(d, keys \ {k}))

\* NormalizeWeights without the division: the weights are kept as given.
NormalizeWeightsSkipped(weights) == weights

\* NormalizeWeights dividing whatever the total.
NormalizeWeightsAlways(weights) ==
    LET total_weight == SumValues(weights, DOMAIN weights)
    IN  [k \in DOMAIN weights |-> FDiv(weights[k], total_weight)]

\* risk_map.py:78-81: divide every weight by the total when it is positive.
NormalizeWeights(weights) ==
    LET total_weight == SumValues(weights, DOMAIN weights)
    IN  IF FGt(total_weight, Zero)
        THEN [k \in DOMAIN weights |-> FDiv(weights[k], total_weight)]
        ELSE weights

\* RiskMap.__init__ starting with an empty result frame instead of None.
RiskMapEmptyCache(zcd, weights) ==
    [zip_code_data |-> zcd,
     risk_scores   |-> [kind |-> "DataFrame", geometry |-> "none", index |-> 0,
                        data |-> <<>>, garea |-> <<>>],
     risk_map_gdf  |-> None,
     risk_weights  |-> NormalizeWeights(IF DOMAIN weights # {} THEN weights
                                        ELSE default_weights)]

\* RiskMap.__init__: a None or empty risk_weights selects the defaults.
RiskMap(zcd, weights) ==
    [zip_code_data |-> zcd,
     risk_scores   |-> None,
     risk_map_gdf  |-> None,
     risk_weights  |-> NormalizeWeights(IF DOMAIN weights # {} THEN weights
                                        ELSE default_weights)]

\* raise: the call ends with the exception, the engine as it then is.
Raise(self, kind) == [self |-> self, raised |-> kind, ret |-> <<>>]
Return(self, value) == [self |-> self, raised |-> "ok", ret |-> value]

\* risk_map.py:153-155
Density(population, area) ==
    FillNa0(ReplaceInf0([i \in DOMAIN population |->
                            FDiv(population[i], area[i])]))

\* risk_map.py:144-149: the area column taken from the geometry is stored
\* in the engine's own table.
DeriveArea(self, area_col) ==
    [self EXCEPT !.zip_code_data = SetColumn(@, area_col, @.garea)]

\* calculate_population_density taking an area of 1 for a table without
\* area column and geometry.
calculate_population_density_unit_area(self, population_col, area_col) ==
    LET zcd == self.zip_code_data
    IN  IF IsNone(zcd) THEN Raise(self, "NotInitialized")
        ELSE IF area_col \notin Columns(zcd) /\ zcd.geometry = "naive"
             THEN Raise(self, "CrsError")
        ELSE LET self1 ==
                     IF area_col \in Columns(zcd) THEN self
                     ELSE IF zcd.geometry = "none"
                     THEN [self EXCEPT !.zip_code_data =
                              SetColumn(@, area_col,
                                        [i \in Rows(zcd) |-> One])]
                     ELSE DeriveArea(self, area_col)
                 t == self1.zip_code_data
             IN  IF population_col \notin Columns(t)
                 THEN Raise(self1, "KeyError")
                 ELSE Return(self1, Density(t.data[population_col],
                                            t.data[area_col]))

calculate_population_density(self, population_col, area_col) ==
    LET zcd == self.zip_code_data
    IN  IF IsNone(zcd) THEN Raise(self, "NotInitialized")
        ELSE IF area_col \notin Columns(zcd) /\ zcd.geometry = "none"
             THEN Raise(self, "MissingData")
        ELSE IF area_col \notin Columns(zcd) /\ zcd.geometry = "naive"
             THEN Raise(self, "CrsError")
        ELSE LET self1 == IF area_col \in Columns(zcd) THEN self
                          ELSE DeriveArea(self, area_col)
                 t == self1.zip_code_data
             IN  IF population_col \notin Columns(t)
                 THEN Raise(self1, "KeyError")
                 ELSE Return(self1, Density(t.data[population_col],
                                            t.data[area_col]))

\* MinMax giving 1 for a series without spread.
MinMaxDegenerateOne(series) ==
    LET min_val == SeriesMin(series)
        max_val == SeriesMax(series)
    IN  IF FGt(FSub(max_val, min_val), Zero)
        THEN [i \in DOMAIN series |->
                FDiv(FSub(series[i], min_val), FSub(max_val, min_val))]
        ELSE Constant(series, One)

\* MinMax dividing by the maximum instead of the spread.
MinMaxByMax(series) ==
    LET min_val == SeriesMin(series)
        max_val == SeriesMax(series)
    IN  IF FGt(FSub(max_val, min_val), Zero)
        THEN [i \in DOMAIN series |->
                FDiv(FSub(series[i], min_val), max_val)]
        ELSE Constant(series, Zero)

\* risk_map.py:176-181
MinMax(series) ==
    LET min_val == SeriesMin(series)
        max_val == SeriesMax(series)
    IN  IF FGt(FSub(max_val, min_val), Zero)
        THEN [i \in DOMAIN series |->
                FDiv(FSub(series[i], min_val), FSub(max_val, min_val))]
        ELSE Constant(series, Zero)

\* The values of a series that are not missing.
Present(series) == {i \in DOMAIN series : ~IsNaN(series[i])}

RECURSIVE SumOver(_, _)
SumOver(series, idx) ==
    IF idx = {} THEN Zero
    ELSE LET i == CHOOSE x \in idx : TRUE
         IN  FAdd(series[i], SumOver(series, idx \ {i}))

\* series.mean(): missing values are skipped; NaN when nothing is left.
SeriesMean(series) ==
    IF Present(series) = {} THEN NaN
    ELSE FDiv(SumOver(series, Present(series)),
              R(Cardinality(Present(series))))

\* The square of series.std() (the sample deviation, ddof = 1): NaN when
\* fewer than two values are present.
SeriesVar(series) ==
    LET mean_val == SeriesMean(series)
        sq == [i \in DOMAIN series |->
                 FMul(FSub(series[i], mean_val), FSub(series[i], mean_val))]
    IN  IF Cardinality(Present(series)) < 2 THEN NaN
        ELSE FDiv(SumOver(sq, Present(series)),
                  R(Cardinality(Present(series)) - 1))

\* 1 / (1 + exp(-z)) for the standard score z = (v - mean) / std.  The
\* value is irrational in general and is kept symbolically, as the sign of
\* z and the rational z * z: <<"sigmoid", sign, z * z>>.
Sigmoid(v, mean_val, var_val) ==
    IF IsNaN(v) THEN NaN
    ELSE LET dev == FSub(v, mean_val)
         IN  <<"sigmoid",
               IF dev[1] > 0 THEN 1 ELSE IF dev[1] < 0 THEN -1 ELSE 0,
               FDiv(FMul(dev, dev), var_val)>>

\* ZScore giving 0 for a series without variance.
ZScoreDegenerateZero(series) ==
    LET mean_val == SeriesMean(series)
        var_val == SeriesVar(series)
    IN  IF FGt(var_val, Zero)
        THEN [i \in DOMAIN series |-> Sigmoid(series[i], mean_val, var_val)]
        ELSE Constant(series, Zero)

\* risk_map.py:183-190; std_val > 0 exactly when its square is.
ZScore(series) ==
    LET mean_val == SeriesMean(series)
        var_val == SeriesVar(series)
    IN  IF FGt(var_val, Zero)
        THEN [i \in DOMAIN series |-> Sigmoid(series[i], mean_val, var_val)]
        ELSE Constant(series, Q(1, 2))

\* normalize_risk_factor taking every unknown method for min_max.
normalize_risk_factor_lenient(series, method) ==
    IF method = "z_score"
    THEN [raised |-> "ok", ret |-> FillNa0(ZScore(series))]
    ELSE [raised |-> "ok", ret |-> FillNa0(MinMax(series))]

\* normalize_risk_factor: the outcome [raised, ret].
normalize_risk_factor(series, method) ==
    IF method = "min_max"
    THEN [raised |-> "ok", ret |-> FillNa0(MinMax(series))]
    ELSE IF method = "z_score"
    THEN [raised |-> "ok", ret |-> FillNa0(ZScore(series))]
    ELSE [raised |-> "InvalidArgument", ret |-> <<>>]

\* normalize_risk_factor called with the default method, as every call of
\* calculate_risk_scores is.
normalize_min_max(series) == normalize_risk_factor(series, "min_max").ret

\* InvertHealthcare without the inversion.
InvertHealthcareSkipped(healthcare_norm) == healthcare_norm

\* risk_map.py:260
InvertHealthcare(healthcare_norm) ==
    [i \in DOMAIN healthcare_norm |-> FSub(One, healthcare_norm[i])]

\* `col and col in self.zip_code_data.columns`
Available(zcd, col) == col # <<>> /\ col[1] \in Columns(zcd)

\* OptionalFactor inverting the healthcare column when it is absent too.
OptionalFactorInvertAbsent(results, zcd, col, name) ==
    LET raw == FillNa0(zcd.data[col[1]])
        norm == IF Available(zcd, col) THEN normalize_min_max(raw)
                ELSE [i \in Rows(results) |-> Zero]
        res == IF Available(zcd, col) THEN SetColumn(results, name, raw)
               ELSE results
    IN  SetColumn(res, NormName[name],
                  IF name = "healthcare_capacity"
                  THEN InvertHealthcare(norm) ELSE norm)

\* OptionalFactor inverting every factor, not healthcare alone.
OptionalFactorInvertAll(results, zcd, col, name) ==
    IF Available(zcd, col)
    THEN LET raw == FillNa0(zcd.data[col[1]])
             norm == normalize_min_max(raw)
         IN  SetColumn(SetColumn(results, name, raw), NormName[name],
                       InvertHealthcare(norm))
    ELSE SetColumn(results, NormName[name],
                   [i \in Rows(results) |-> Zero])

\* One optional factor of calculate_risk_scores (risk_map.py:238-270).
OptionalFactor(results, zcd, col, name) ==
    IF Available(zcd, col)
    THEN LET raw == FillNa0(zcd.data[col[1]])
             norm == normalize_min_max(raw)
         IN  SetColumn(SetColumn(results, name, raw), NormName[name],
                       IF name = "healthcare_capacity"
                       THEN InvertHealthcare(norm) ELSE norm)
    ELSE SetColumn(results, NormName[name],
                   [i \in Rows(results) |-> Zero])

\* WeightGet with a default of 1.
WeightGetDefaultOne(weights, factor) ==
    IF factor \in DOMAIN weights THEN weights[factor] ELSE One

\* self.risk_weights.get(factor, 0)
WeightGet(weights, factor) ==
    IF factor \in DOMAIN weights THEN weights[factor] ELSE Zero

\* CompositeScore adding the contributions without their weights.
CompositeScoreUnweighted(results, weights) ==
    [i \in Rows(results) |->
        SumValues([f \in Factors |-> results.data[NormName[f]][i]], Factors)]

\* risk_map.py:273-279
CompositeScore(results, weights) ==
    LET term(f, i) == FMul(results.data[NormName[f]][i], WeightGet(weights, f))
    IN  [i \in Rows(results) |->
            FAdd(FAdd(FAdd(FAdd(term("population_density", i),
                                term("bird_density", i)),
                           term("water_proximity", i)),
                      term("healthcare_capacity", i)),
                 term("vulnerability_index", i))]

bins == <<Zero, Q(1, 4), Q(1, 2), Q(3, 4), One>>
labels == <<"Low", "Medium", "High", "Very High">>

\* pd.cut(x, bins, labels): the label of the bin (bins[k], bins[k+1]]
\* holding x; a value in no bin gets the missing category, "NaN".
Cut(x) ==
    IF \E k \in 1 .. 4 : FLt(bins[k], x) /\ FLe(x, bins[k + 1])
    THEN labels[CHOOSE k \in 1 .. 4 : FLt(bins[k], x) /\ FLe(x, bins[k + 1])]
    ELSE "NaN"

\* NewResults starting from the cached result when its rows fit.
NewResultsOnCache(self) ==
    IF ~IsNone(self.risk_scores)
       /\ self.risk_scores.index = self.zip_code_data.index
    THEN self.risk_scores
    ELSE [kind |-> "DataFrame", geometry |-> "none",
          index |-> self.zip_code_data.index, data |-> <<>>, garea |-> <<>>]

\* risk_map.py:231: results = pd.DataFrame(index=self.zip_code_data.index)
NewResults(self) ==
    [kind |-> "DataFrame", geometry |-> "none",
     index |-> self.zip_code_data.index, data |-> <<>>, garea |-> <<>>]

\* risk_map.py:291-296: the area table and the results side by side, a
\* GeoDataFrame when the area table is one.
Combined(zcd, results) ==
    [kind |-> zcd.kind, base |-> zcd, results |-> results]

\* risk_map.py:288: self.risk_scores = results
StoreScores(self, results) == [self EXCEPT !.risk_scores = results]

\* StoreMap combining the cached result instead of the call's own.
StoreMapFromCache(self, results) ==
    [self EXCEPT !.risk_map_gdf =
        Combined(self.zip_code_data, self.risk_scores)]

\* risk_map.py:291-296: self.risk_map_gdf is built from the table as it
\* then is and the results of the call.
StoreMap(self, results) ==
    [self EXCEPT !.risk_map_gdf = Combined(self.zip_code_data, results)]

\* risk_map.py:288-296
Store(self, results) ==
    [self EXCEPT !.risk_scores = results,
                 !.risk_map_gdf = Combined(self.zip_code_data, results)]

\* Propagate dropping the cached tables on the way out.
PropagateReset(d) ==
    Raise([d.self EXCEPT !.risk_scores = None, !.risk_map_gdf = None],
          d.raised)

\* risk_map.py:234: an exception of calculate_population_density ends
\* calculate_risk_scores too, the engine as the inner call left it.
Propagate(d) == Raise(d.self, d.raised)

calculate_risk_scores(self, args) ==
    IF IsNone(self.zip_code_data) THEN Raise(self, "NotInitialized")
    ELSE
    LET d == calculate_population_density(self, args.population_col,
                                          args.area_col)
    IN  IF d.raised # "ok" THEN Propagate(d)
        ELSE
        LET zcd == d.self.zip_code_data
            r0 == NewResults(d.self)
            r1 == SetColumn(SetColumn(r0, "population_density", d.ret),
                            "population_density_norm",
                            normalize_min_max(d.ret))
            r2 == OptionalFactor(r1, zcd, args.bird_density_col,
                                 "bird_density")
            r3 == OptionalFactor(r2, zcd, args.water_proximity_col,
                                 "water_proximity")
            r4 == OptionalFactor(r3, zcd, args.healthcare_col,
                                 "healthcare_capacity")
            r5 == OptionalFactor(r4, zcd, args.vulnerability_col,
                                 "vulnerability_index")
            risk_score == CompositeScore(r5, d.self.risk_weights)
            results == SetColumn(SetColumn(r5, "risk_score", risk_score),
                                 "risk_category",
                                 [i \in Rows(r5) |-> Cut(risk_score[i])])
        IN  Return(Store(d.self, results), results)

\* self.risk_scores['risk_score']
Scores(rs) == rs.data["risk_score"]

\* AtLeast with a strict comparison.
AtLeastStrict(rs, threshold) ==
    SelectSeq([i \in 1 .. rs.index |-> i],
              LAMBDA i : FGt(rs.data["risk_score"][i], threshold))

\* risk_map.py:516: the rows, in table order, whose score reaches the
\* threshold.
AtLeast(rs, threshold) ==
    SelectSeq([i \in Rows(rs) |-> i],
              LAMBDA i : FGe(Scores(rs)[i], threshold))

\* DataFrame.nlargest(n, 'risk_score') (keep = 'first'): the n rows of the
\* highest score in descending order, equal scores in table order.
NLargest(rs, n) ==
    LET before(j, i) == \/ FGt(Scores(rs)[j], Scores(rs)[i])
                        \/ Scores(rs)[j] = Scores(rs)[i] /\ j < i
        rank(i) == 1 + Cardinality({j \in Rows(rs) : before(j, i)})
        m == IF n < rs.index THEN n ELSE rs.index
    IN  [p \in 1 .. m |-> CHOOSE i \in Rows(rs) : rank(i) = p]

\* `if top_n:`: None and 0 are both false.
Truthy(top_n) == top_n # <<>> /\ top_n[1] # 0

\* risk_map.py:516-519: the rows selected, before the final sort.
HighRisk(rs, threshold, top_n) ==
    IF Truthy(top_n) THEN NLargest(rs, top_n[1])
    ELSE AtLeast(rs, threshold)

Range(seq) == {seq[k] : k \in DOMAIN seq}

\* SortedDescending without the sort: the rows as selected.
SortedDescendingSkipped(rs, rows) == {rows}

\* SortedDescending sorting in ascending order.
SortedAscending(rs, rows) ==
    {p \in [DOMAIN rows -> Range(rows)] :
        /\ Range(p) = Range(rows)
        /\ \A k \in DOMAIN p :
              k + 1 \in DOMAIN p => FLe(Scores(rs)[p[k]], Scores(rs)[p[k + 1]])}

\* sort_values('risk_score', ascending=False): the default sort is not
\* stable, so every descending arrangement of the rows is a possible result.
SortedDescending(rs, rows) ==
    {p \in [DOMAIN rows -> Range(rows)] :
        /\ Range(p) = Range(rows)
        /\ \A k \in DOMAIN p :
              k + 1 \in DOMAIN p => FGe(Scores(rs)[p[k]], Scores(rs)[p[k + 1]])}

\* get_high_risk_zips guarded by the area table instead of the cached
\* result: an empty frame is returned when nothing was computed.
get_high_risk_zips_table_guard(self, threshold, top_n) ==
    IF IsNone(self.zip_code_data) THEN {Raise(self, "NotComputed")}
    ELSE IF IsNone(self.risk_scores) THEN {Return(self, <<>>)}
    ELSE {Return(self, p) :
            p \in SortedDescending(self.risk_scores,
                                   HighRisk(self.risk_scores, threshold, top_n))}

\* get_high_risk_zips: the set of outcomes (one per result of the sort); the
\* value returned is the sequence of the index labels of the rows returned.
get_high_risk_zips(self, threshold, top_n) ==
    IF IsNone(self.risk_scores) THEN {Raise(self, "NotComputed")}
    ELSE {Return(self, p) :
            p \in SortedDescending(self.risk_scores,
                                   HighRisk(self.risk_scores, threshold, top_n))}

\* export_risk_data: the value returned stands for the file written.
export_risk_data(self, format) ==
    IF IsNone(self.risk_map_gdf) THEN Raise(self, "NotComputed")
    ELSE IF format = "csv"
         THEN Return(self, [format |-> "csv", table |-> self.risk_map_gdf])
    ELSE IF format \in {"geojson", "shp"}
         THEN (IF self.risk_map_gdf.kind # "GeoDataFrame"
               THEN Raise(self, "InvalidArgument")
               ELSE IF self.risk_map_gdf.base.geometry = "none"
               THEN Raise(self, "GeometryError")  \* to_file finds no geometry
               ELSE Return(self, [format |-> format,
                                  table |-> self.risk_map_gdf]))
    ELSE Raise(self, "InvalidArgument")

\* load_zip_code_data dropping the cached tables with the old area table.
load_zip_code_data_reset(self, gdf) ==
    Return([self EXCEPT !.zip_code_data = gdf, !.risk_scores = None,
                        !.risk_map_gdf = None], gdf)

\* load_zip_code_data: gdf is the GeoDataFrame read from the file.
load_zip_code_data(self, gdf) ==
    Return([self EXCEPT !.zip_code_data = gdf], gdf)

----------------------------------------------------------------------------
(* Inputs.                                                                 *)

Table(kind, geometry, n, data, garea) ==
    [kind |-> kind, geometry |-> geometry, index |-> n, data |-> data,
     garea |-> garea]

\* The optional columns of the sample tables: bird density rising with the
\* row, water proximity constant, healthcare capacity falling with the row,
\* the first vulnerability index missing.
SampleColumn(col, n) ==
    [i \in 1 .. n |->
        CASE col = "area_km2" -> One
          [] col = "bird_density" -> R(i - 1)
          [] col = "water_proximity" -> One
          [] col = "healthcare_capacity" -> R(n - i)
          [] col = "vulnerability_index" -> IF i = 1 THEN NaN ELSE R(i)]

\* The layouts of the sample tables: the kind of frame, its geometry and
\* the columns it has besides population.
FullLayout ==
    <<"DataFrame", "none", {"area_km2", "bird_density", "water_proximity",
                            "healthcare_capacity", "vulnerability_index"}>>

OtherLayouts ==
    {<<"DataFrame", "none", {"area_km2"}>>,
     <<"DataFrame", "none", {}>>,
     <<"GeoDataFrame", "none", {"area_km2", "bird_density"}>>,
     <<"GeoDataFrame", "naive", {}>>,
     <<"GeoDataFrame", "crs", {"healthcare_capacity"}>>}

SampleTable(layout, population) ==
    LET n == Len(population)
    IN  Table(layout[1], layout[2], n,
              [c \in layout[3] \cup {"population"} |->
                  IF c = "population" THEN population ELSE SampleColumn(c, n)],
              IF layout[2] = "crs" THEN [i \in 1 .. n |-> R(i)] ELSE <<>>)

Populations(maxRows, maxVal) ==
    UNION {[1 .. n -> {R(v) : v \in 0 .. maxVal}] : n \in 1 .. maxRows}

\* A table of the full layout with an area of 1 everywhere, the given
\* population and healthcare capacity, and 0 for the other optional factors.
ScenarioTable(population, healthcare) ==
    LET n == Len(population)
    IN  Table("DataFrame", "none", n,
              [c \in FullLayout[3] \cup {"population"} |->
                  IF c = "population" THEN population
                  ELSE IF c = "healthcare_capacity" THEN healthcare
                  ELSE IF c = "area_km2" THEN [i \in 1 .. n |-> One]
                  ELSE [i \in 1 .. n |-> Zero]],
              <<>>)

\* The scenario tables: three areas of populations 1000, 5000 and 2000
\* with 0 for every optional factor, and two areas alike but for a
\* healthcare capacity of 1 and 0.
Scenarios ==
    {ScenarioTable(<<R(1000), R(5000), R(2000)>>, <<Zero, Zero, Zero>>),
     ScenarioTable(<<R(1000), R(1000)>>, <<One, Zero>>)}

\* The tables engines are constructed with: the full layout with every
\* population column, the other layouts with a rising population, and the
\* scenario tables.
Tables ==
    {SampleTable(FullLayout, p) : p \in Populations(MaxRows, MaxPop)}
    \cup Scenarios
    \cup {SampleTable(l, [i \in 1 .. n |-> R(i)]) :
            l \in OtherLayouts, n \in 1 .. MaxRows}

\* The files load_zip_code_data reads in the model: two areas with their
\* polygons and no area column, and one area with neither.
Files ==
    {SampleTable(<<"GeoDataFrame", "crs", {"bird_density"}>>, <<R(1), R(0)>>),
     SampleTable(<<"GeoDataFrame", "none", {}>>, <<R(1)>>)}

\* Weight mappings over two of the factor names; the constructor takes any
\* number as a weight, a negative one too.
WeightMaps ==
    [{"population_density", "healthcare_capacity"} ->
        {R(w) : w \in (-1) .. MaxWeight}]

Opt(name) == <<name>>

CalcArgs ==
    {[population_col |-> p, area_col |-> a,
      bird_density_col |-> o[1], water_proximity_col |-> o[2],
      healthcare_col |-> o[3], vulnerability_col |-> o[4]] :
        p \in {"population"}, a \in {"area_km2"},
        o \in {<<Opt("bird_density"), Opt("water_proximity"),
                 Opt("healthcare_capacity"), Opt("vulnerability_index")>>,
               <<<<>>, <<>>, <<>>, <<>>>>,
               <<Opt("bird_density"), <<>>, <<>>, <<>>>>,
               <<<<>>, <<>>, Opt("healthcare_capacity"), <<>>>>}}

\* Thresholds: the default, and the score of the first row of the cached
\* table.
Thresholds(rs) ==
    {Q(7, 10)} \cup (IF IsNone(rs) \/ rs.index = 0 THEN {}
                     ELSE {Scores(rs)[1]})

TopNs == {<<>>} \cup {<<k>> : k \in 0 .. MaxTopN}

Formats == {"csv", "geojson", "shp", "xlsx"}

----------------------------------------------------------------------------
(* The state machine.                                                      *)

\* The threads that call calculate_risk_scores on the one engine.
Threads == {"A", "B"}

\* A thread that has not called yet.
IdleThread == [pc |-> "idle", args |-> <<>>, results |-> None]

Self == [zip_code_data |-> zip_code_data, risk_weights |-> risk_weights,
         risk_scores |-> risk_scores, risk_map_gdf |-> risk_map_gdf]

Construct(zcd, weights) ==
    LET self == RiskMap(zcd, weights)
    IN  /\ zip_code_data = self.zip_code_data
        /\ risk_weights = self.risk_weights
        /\ risk_scores = self.risk_scores
        /\ risk_map_gdf = self.risk_map_gdf
        /\ weights_arg = weights
        /\ scored = FALSE
        /\ threads = [t \in Threads |-> IdleThread]
        /\ writer = [risk_scores |-> "none", risk_map_gdf |-> "none"]
        /\ call = [op |-> "__init__", args |-> <<>>, raised |-> "ok",
                   ret |-> <<>>]

\* The engine and the record of the call after a call with outcome out.
Called(op, args, out) ==
    /\ zip_code_data' = out.self.zip_code_data
    /\ risk_weights' = out.self.risk_weights
    /\ risk_scores' = out.self.risk_scores
    /\ risk_map_gdf' = out.self.risk_map_gdf
    /\ call' = [op |-> op, args |-> args, raised |-> out.raised,
                ret |-> out.ret]
    /\ scored' = (scored \/ (op = "calculate_risk_scores" /\ out.raised = "ok"))
    /\ UNCHANGED <<weights_arg, threads, writer>>

LoadZipCodeData ==
    \E gdf \in Files :
        \E out \in {load_zip_code_data(Self, gdf)} : Called("load_zip_code_data", gdf, out)

CalculatePopulationDensity ==
    \E p \in {"population", "pop"}, a \in {"area_km2"} :
        \E out \in {calculate_population_density(Self, p, a)} :
            Called("calculate_population_density",
                   [population_col |-> p, area_col |-> a], out)

CalculateRiskScores ==
    \E args \in CalcArgs :
        \E out \in {calculate_risk_scores(Self, args)} :
            Called("calculate_risk_scores", args, out)

GetHighRiskZips ==
    \E threshold \in Thresholds(risk_scores), top_n \in TopNs :
        \E out \in get_high_risk_zips(Self, threshold, top_n) :
            Called("get_high_risk_zips",
                   [threshold |-> threshold, top_n |-> top_n], out)

ExportRiskData ==
    \E format \in Formats :
        \E out \in {export_risk_data(Self, format)} :
            Called("export_risk_data", [format |-> format], out)

Next ==
    \/ LoadZipCodeData
    \/ CalculatePopulationDensity
    \/ CalculateRiskScores
    \/ GetHighRiskZips
    \/ ExportRiskData

\* Engines over the sample tables, with the default weights or one custom
\* mapping.
Init ==
    \E zcd \in Tables \cup {None},
       weights \in {<<>>, [population_density |-> R(1),
                           healthcare_capacity |-> R(1)]} :
        Construct(zcd, weights)

Spec == Init /\ [][Next]_vars

\* Engines over every weight mapping, with no table or one sample table.
InitWeights ==
    \E zcd \in {None, SampleTable(<<"DataFrame", "none",
                                    {"area_km2", "healthcare_capacity"}>>,
                                  <<R(2), R(0), R(1)>>)},
       weights \in WeightMaps \cup {<<>>} :
        Construct(zcd, weights)

SpecWeights == InitWeights /\ [][Next]_vars

\* Tables for the scoring function: every healthcare column, its first value
\* possibly missing, beside a rising population and the sample columns.
ScoreTables ==
    UNION {{Table("DataFrame", "none", n,
                  [c \in FullLayout[3] \cup {"population"} |->
                      IF c = "population" THEN p
                      ELSE IF c = "healthcare_capacity" THEN h
                      ELSE SampleColumn(c, n)],
                  <<>>) :
              p \in {[i \in 1 .. n |-> R(i)]},
              h \in {g \in [1 .. n -> {R(v) : v \in 0 .. MaxVal} \cup {NaN}] :
                        \A i \in 2 .. n : ~IsNaN(g[i])}} :
           n \in 1 .. MaxAreas}

\* The weights of the scoring specification: the defaults, healthcare
\* alone, and a mapping with a negative weight.
ScoreWeights ==
    {<<>>,
     [healthcare_capacity |-> R(1)],
     [population_density |-> R(2), healthcare_capacity |-> R(-1)]}

InitScore ==
    \E zcd \in ScoreTables, weights \in ScoreWeights : Construct(zcd, weights)

NextScore == CalculateRiskScores

\* The scoring function alone, over the scoring tables.
SpecScore == InitScore /\ [][NextScore]_vars

\* risk_map.py:228-286: thread t calls calculate_risk_scores and computes
\* its results, a local of the call; the derived area column, if any, is
\* written to the table.  An exception ends the call.
ThreadCompute(t) ==
    /\ threads[t].pc = "idle"
    /\ \E args \in CalcArgs :
          \E out \in {calculate_risk_scores(Self, args)} :
              /\ zip_code_data' = out.self.zip_code_data
              /\ IF out.raised = "ok"
                 THEN /\ threads' = [threads EXCEPT ![t] =
                             [pc |-> "computed", args |-> args,
                              results |-> out.ret]]
                      /\ UNCHANGED call
                 ELSE /\ threads' = [threads EXCEPT ![t] =
                             [pc |-> "failed", args |-> args,
                              results |-> None]]
                      /\ call' = [op |-> "calculate_risk_scores",
                                  args |-> args, raised |-> out.raised,
                                  ret |-> <<>>]
    /\ UNCHANGED <<risk_weights, risk_scores, risk_map_gdf, weights_arg,
                   scored, writer>>

\* risk_map.py:288: thread t assigns its results to self.risk_scores.
ThreadStoreScores(t) ==
    /\ threads[t].pc = "computed"
    /\ risk_scores' = StoreScores(Self, threads[t].results).risk_scores
    /\ threads' = [threads EXCEPT ![t].pc = "stored"]
    /\ writer' = [writer EXCEPT !.risk_scores = t]
    /\ UNCHANGED <<zip_code_data, risk_weights, risk_map_gdf, weights_arg,
                   scored, call>>

\* risk_map.py:291-298: thread t assigns the combined table to
\* self.risk_map_gdf and returns its results.
ThreadStoreMap(t) ==
    /\ threads[t].pc = "stored"
    /\ risk_map_gdf' = StoreMap(Self, threads[t].results).risk_map_gdf
    /\ threads' = [threads EXCEPT ![t].pc = "done"]
    /\ writer' = [writer EXCEPT !.risk_map_gdf = t]
    /\ call' = [op |-> "calculate_risk_scores", args |-> threads[t].args,
                raised |-> "ok", ret |-> threads[t].results]
    /\ scored' = TRUE
    /\ UNCHANGED <<zip_code_data, risk_weights, risk_scores, weights_arg>>

\* The tables of the threaded engine: the full layout, a GeoDataFrame whose
\* area is derived from its geometry, and a table without area.
ThreadTables ==
    {SampleTable(l, [i \in 1 .. n |-> R(i)]) :
        l \in {FullLayout,
               <<"GeoDataFrame", "crs", {"healthcare_capacity"}>>,
               <<"DataFrame", "none", {}>>},
        n \in 1 .. MaxRows}

InitThreads == \E zcd \in ThreadTables : Construct(zcd, <<>>)

NextThreads ==
    \E t \in Threads :
        ThreadCompute(t) \/ ThreadStoreScores(t) \/ ThreadStoreMap(t)

\* Two threads calling calculate_risk_scores on one engine, a thread
\* switch possible between the statements that assign the cached tables.
SpecThreads == InitThreads /\ [][NextThreads]_vars

\* Tables for the normaliser: one column, of every series over -1..MaxVal
\* and the missing value, of 1 to MaxAreas values.
NormTables ==
    UNION {{Table("DataFrame", "none", n, [c \in {"bird_density"} |-> x],
                  <<>>) :
              x \in [1 .. n -> {R(v) : v \in (-1) .. MaxVal} \cup {NaN}]} :
           n \in 1 .. MaxAreas}

\* The method names passed to normalize_risk_factor: the two it knows and
\* two it does not.
Methods == {"min_max", "z_score", "log", ""}

\* self.normalize_risk_factor(self.zip_code_data[col], method)
NormalizeRiskFactor ==
    /\ ~IsNone(zip_code_data)
    /\ \E col \in Columns(zip_code_data), method \in Methods :
          \E out \in {normalize_risk_factor(zip_code_data.data[col], method)} :
              Called("normalize_risk_factor",
                     [series |-> zip_code_data.data[col], method |-> method],
                     [self |-> Self, raised |-> out.raised, ret |-> out.ret])

InitNorm == \E zcd \in NormTables : Construct(zcd, <<>>)

NextNorm == NormalizeRiskFactor

\* The normaliser alone, over every series.
SpecNorm == InitNorm /\ [][NextNorm]_vars

\* Tables for the density: every area column over negative, zero and
\* positive areas, beside a population rising from 0 or from 1 and the
\* sample columns.
AreaTables ==
    UNION {{Table("DataFrame", "none", n,
                  [c \in FullLayout[3] \cup {"population"} |->
                      IF c = "population" THEN p
                      ELSE IF c = "area_km2" THEN a
                      ELSE SampleColumn(c, n)],
                  <<>>) :
              p \in {[i \in 1 .. n |-> R(i)], [i \in 1 .. n |-> R(i - 1)]},
              a \in [1 .. n -> {R(v) : v \in (-MaxArea) .. MaxArea}]} :
           n \in 1 .. MaxRows}

InitArea ==
    \E zcd \in AreaTables,
       weights \in {<<>>, [population_density |-> R(1)]} :
        Construct(zcd, weights)

NextArea == CalculatePopulationDensity \/ CalculateRiskScores

\* The density and the scoring over tables of any area.
SpecArea == InitArea /\ [][NextArea]_vars

----------------------------------------------------------------------------
(* The properties.                                                         *)

Engine == <<zip_code_data, risk_weights, risk_scores, risk_map_gdf>>

IsCall(op) == call.op = op
Succeeded(op) == call.op = op /\ call.raised = "ok"

\* The mapping the constructor normalises: the argument, or the defaults.
RawWeights == IF DOMAIN weights_arg # {} THEN weights_arg ELSE default_weights
RawTotal == SumValues(RawWeights, DOMAIN RawWeights)

\* C1: whenever the raw weights have a positive sum, the effective weights
\* sum to exactly 1 and each is its raw weight over the raw sum, in every
\* state the engine reaches.
C1_WeightsSumToOne ==
    FGt(RawTotal, Zero) =>
        /\ DOMAIN risk_weights = DOMAIN RawWeights
        /\ SumValues(risk_weights, DOMAIN risk_weights) = One
        /\ \A k \in DOMAIN risk_weights :
              FMul(risk_weights[k], RawTotal) = RawWeights[k]

\* C1 witness: a mapping whose raw sum is positive and not 1 was given and
\* a scoring call has since succeeded.
C1_Witness ==
    /\ FGt(RawTotal, One)
    /\ Succeeded("calculate_risk_scores")

\* The category the four buckets [0, 0.25], (0.25, 0.5], (0.5, 0.75],
\* (0.75, 1] give a score of [0, 1].
Bucket(x) ==
    IF FLe(x, Q(1, 4)) THEN "Low"
    ELSE IF FLe(x, Q(1, 2)) THEN "Medium"
    ELSE IF FLe(x, Q(3, 4)) THEN "High"
    ELSE "Very High"

\* C2: every record of the cached result whose risk_score lies in [0, 1],
\* a score of exactly 0 included, carries the category of its bucket.
C2_EveryUnitScoreClassified ==
    ~IsNone(risk_scores) =>
        \A i \in Rows(risk_scores) :
            LET x == Scores(risk_scores)[i]
            IN  (FLe(Zero, x) /\ FLe(x, One)) =>
                    risk_scores.data["risk_category"][i] = Bucket(x)

Min(a, b) == IF a < b THEN a ELSE b

\* C3: a successful query with top_n = k >= 0 given returns exactly
\* min(k, n) distinct records, none of them scoring below a record left
\* out, whatever the threshold.
C3_TopNReturnsExactlyK ==
    (Succeeded("get_high_risk_zips") /\ call.args.top_n # <<>>) =>
        /\ Len(call.ret) = Min(call.args.top_n[1], risk_scores.index)
        /\ Cardinality(Range(call.ret)) = Len(call.ret)
        /\ \A i \in Range(call.ret), j \in Rows(risk_scores) \ Range(call.ret) :
              FGe(Scores(risk_scores)[i], Scores(risk_scores)[j])

\* C4: a successful query without top_n returns each record whose score is
\* at least the threshold once, and no other record.
C4_ThresholdFilter ==
    (Succeeded("get_high_risk_zips") /\ call.args.top_n = <<>>) =>
        /\ Range(call.ret) =
              {i \in Rows(risk_scores) :
                  FGe(Scores(risk_scores)[i], call.args.threshold)}
        /\ Cardinality(Range(call.ret)) = Len(call.ret)

\* C4 witness: a query without top_n whose threshold is the score of a
\* returned record, with another record left out.
C4_Witness ==
    /\ Succeeded("get_high_risk_zips")
    /\ call.args.top_n = <<>>
    /\ \E i \in Range(call.ret) : Scores(risk_scores)[i] = call.args.threshold
    /\ Range(call.ret) # Rows(risk_scores)

\* C5: the records a successful query returns are in descending order of
\* risk_score, in both modes.
C5_SortedDescending ==
    Succeeded("get_high_risk_zips") =>
        \A k \in 1 .. Len(call.ret) - 1 :
            FGe(Scores(risk_scores)[call.ret[k]],
                Scores(risk_scores)[call.ret[k + 1]])

\* C5 witness: a threshold query returned two records of different scores
\* in the reverse of their table order.
C5_Witness ==
    /\ Succeeded("get_high_risk_zips")
    /\ call.args.top_n = <<>>
    /\ \E k \in 1 .. Len(call.ret) - 1 :
          /\ call.ret[k] > call.ret[k + 1]
          /\ FGt(Scores(risk_scores)[call.ret[k]],
                 Scores(risk_scores)[call.ret[k + 1]])

\* C6: a query made before any scoring call has succeeded raises
\* NotComputed and returns nothing.
C6_QueryBeforeScoringFails ==
    (IsCall("get_high_risk_zips") /\ ~scored) =>
        /\ call.raised = "NotComputed"
        /\ call.ret = <<>>

\* C6 witness: a query on an engine that holds a table and has not scored.
C6_Witness ==
    /\ IsCall("get_high_risk_zips")
    /\ ~scored
    /\ ~IsNone(zip_code_data)

\* C7: on an engine without an area table a scoring call raises
\* NotInitialized and leaves no cached result, so that every query that
\* follows raises NotComputed.
C7_ScoringWithoutTableFails ==
    /\ (IsCall("calculate_risk_scores") /\ IsNone(zip_code_data)) =>
          call.raised = "NotInitialized"
    /\ (IsCall("calculate_risk_scores") /\ call.raised = "NotInitialized") =>
          /\ IsNone(risk_scores)
          /\ \A threshold \in Thresholds(risk_scores), top_n \in TopNs :
                get_high_risk_zips(Self, threshold, top_n)
                    = {Raise(Self, "NotComputed")}

\* C7 witness: a scoring call has just failed on an engine without a table.
C7_Witness ==
    /\ IsCall("calculate_risk_scores")
    /\ IsNone(zip_code_data)
    /\ call.raised = "NotInitialized"

\* C8: a call that raises NotInitialized, NotComputed, MissingData or
\* InvalidArgument leaves the area table, the weights, the cached result
\* and the combined table as they were.
C8_FailureKeepsEngine ==
    [][call'.raised \in {"NotInitialized", "NotComputed", "MissingData",
                         "InvalidArgument"}
        => UNCHANGED Engine]_vars

\* C8 witness: a scoring call failed with MissingData on an engine that
\* holds the result of an earlier scoring call.
C8_Witness ==
    /\ IsCall("calculate_risk_scores")
    /\ call.raised = "MissingData"
    /\ scored
    /\ ~IsNone(risk_scores)

\* The columns a scoring call with these arguments builds from this table.
ResultColumns(zcd, args) ==
    {"population_density", "risk_score", "risk_category"}
    \cup {NormName[f] : f \in Factors}
    \cup (IF Available(zcd, args.bird_density_col)
          THEN {"bird_density"} ELSE {})
    \cup (IF Available(zcd, args.water_proximity_col)
          THEN {"water_proximity"} ELSE {})
    \cup (IF Available(zcd, args.healthcare_col)
          THEN {"healthcare_capacity"} ELSE {})
    \cup (IF Available(zcd, args.vulnerability_col)
          THEN {"vulnerability_index"} ELSE {})

\* C9: after a successful scoring call the cached result is the table the
\* call returned, with one row per area and exactly the columns of that
\* call's arguments: nothing of an earlier result is left.
C9_ResultReplaced ==
    Succeeded("calculate_risk_scores") =>
        /\ risk_scores = call.ret
        /\ risk_scores.index = zip_code_data.index
        /\ Columns(risk_scores) = ResultColumns(zip_code_data, call.args)
        /\ \A c \in Columns(risk_scores) : Len(risk_scores.data[c]) = risk_scores.index

\* C9 witness: a scoring call succeeded without the bird density factor on
\* a table that has the column, which an earlier call could have requested.
C9_Witness ==
    /\ Succeeded("calculate_risk_scores")
    /\ call.args.bird_density_col = <<>>
    /\ "bird_density" \in Columns(zip_code_data)
    /\ "bird_density" \notin Columns(risk_scores)

WeightsNonNegative ==
    \A k \in DOMAIN risk_weights : FGe(risk_weights[k], Zero)

\* The risk_score of area i when the last scoring call is made on the same
\* engine with the healthcare capacity of area i alone changed to v.
ScoreWithHealthcare(i, v) ==
    Scores(calculate_risk_scores(
               [Self EXCEPT !.zip_code_data.data["healthcare_capacity"][i] = v],
               call.args).ret)[i]

\* The values from x + 1 to x + MaxVal + 1.
RaisedFrom(x) == {FAdd(x, R(k)) : k \in 1 .. MaxVal + 1}

\* C10: with non-negative weights, raising the healthcare capacity of one
\* area, everything else as it is, never raises the risk_score the scoring
\* call gives that area.
C10_HealthcareNeverRaisesRisk ==
    (/\ Succeeded("calculate_risk_scores")
     /\ Available(zip_code_data, call.args.healthcare_col)
     /\ WeightsNonNegative) =>
        \A i \in Rows(zip_code_data) :
            LET h == zip_code_data.data["healthcare_capacity"][i]
            IN  ~IsNaN(h) =>
                    \A v \in RaisedFrom(h) :
                        FLe(ScoreWithHealthcare(i, v), Scores(risk_scores)[i])

\* C10 witness: a scoring call with the healthcare factor and a positive
\* healthcare weight, where raising one area's capacity lowers its score.
C10_Witness ==
    /\ Succeeded("calculate_risk_scores")
    /\ Available(zip_code_data, call.args.healthcare_col)
    /\ WeightsNonNegative
    /\ \E i \in Rows(zip_code_data) :
          LET h == zip_code_data.data["healthcare_capacity"][i]
          IN  /\ ~IsNaN(h)
              /\ \E v \in RaisedFrom(h) :
                    FLt(ScoreWithHealthcare(i, v), Scores(risk_scores)[i])

\* The risk_score of area i when the last scoring call is made on the same
\* engine with the value of column col for area i alone changed to v.
ScoreWith(col, i, v) ==
    Scores(calculate_risk_scores(
               [Self EXCEPT !.zip_code_data.data[col][i] = v],
               call.args).ret)[i]

\* The raw columns of the factors other than healthcare.
RiskColumns ==
    {"population", "bird_density", "water_proximity", "vulnerability_index"}

\* C11: with non-negative weights, raising one area's raw value of a
\* factor other than healthcare, everything else as it is, never lowers the
\* risk_score the scoring call gives that area.
C11_FactorNeverLowersRisk ==
    (Succeeded("calculate_risk_scores") /\ WeightsNonNegative) =>
        \A col \in RiskColumns \cap Columns(zip_code_data) :
            \A i \in Rows(zip_code_data) :
                LET x == zip_code_data.data[col][i]
                IN  ~IsNaN(x) =>
                        \A v \in RaisedFrom(x) :
                            FGe(ScoreWith(col, i, v), Scores(risk_scores)[i])

\* C11 where every area is positive.
C11_PositiveAreas ==
    (\A i \in Rows(zip_code_data) :
        FGt(zip_code_data.data["area_km2"][i], Zero))
    => C11_FactorNeverLowersRisk

\* A defined number in [0, 1]: a rational between 0 and 1, or the sigmoid
\* of a finite standard score, which lies strictly between them.
InUnit(x) ==
    IF Len(x) = 3 THEN IsFinite(x[3])
    ELSE IsFinite(x) /\ FLe(Zero, x) /\ FLe(x, One)

\* C12: for min_max and z_score and every series, every value
\* normalize_risk_factor returns is a defined number in [0, 1], one per
\* input value; a missing value comes out as 0.
C12_NormalizedInUnit ==
    Succeeded("normalize_risk_factor") =>
        /\ Len(call.ret) = Len(call.args.series)
        /\ \A i \in DOMAIN call.ret : InUnit(call.ret[i])
        /\ \A i \in DOMAIN call.ret :
              (IsNaN(call.args.series[i])
               /\ \E j, k \in Present(call.args.series) :
                     call.args.series[j] # call.args.series[k])
              => call.ret[i] = Zero

\* C12 witness: a z_score call on a series with a missing value and two
\* different values, giving 0 for the missing one and a sigmoid for another.
C12_Witness ==
    /\ Succeeded("normalize_risk_factor")
    /\ call.args.method = "z_score"
    /\ \E i, j \in DOMAIN call.ret :
          /\ IsNaN(call.args.series[i])
          /\ call.ret[i] = Zero
          /\ Len(call.ret[j]) = 3

\* The last call normalised a series with the given method.
Normalized(method) ==
    Succeeded("normalize_risk_factor") /\ call.args.method = method

\* Every value of the series that is present is the same.
NoSpread(series) ==
    \A i, j \in Present(series) : series[i] = series[j]

\* C13: min_max returns 0 for every element of a series whose maximum
\* equals its minimum (a constant or single-element series).
C13_MinMaxConstantIsZero ==
    (Normalized("min_max") /\ NoSpread(call.args.series)) =>
        \A i \in DOMAIN call.ret : call.ret[i] = Zero

\* C13 witness: min_max on a constant series of two values or more.
C13_Witness ==
    /\ Normalized("min_max")
    /\ NoSpread(call.args.series)
    /\ Cardinality(Present(call.args.series)) >= 2
    /\ \A i \in DOMAIN call.ret : call.ret[i] = Zero

Least(series) ==
    series[CHOOSE i \in Present(series) :
              \A j \in Present(series) : FLe(series[i], series[j])]
Greatest(series) ==
    series[CHOOSE i \in Present(series) :
              \A j \in Present(series) : FGe(series[i], series[j])]

\* C15: min_max on a series with max > min returns (v - min) / (max - min)
\* for each value v: 0 for the minimum, 1 for the maximum, and the order of
\* any two values is kept.
C15_MinMaxFormula ==
    (Normalized("min_max") /\ ~NoSpread(call.args.series)) =>
        LET x == call.args.series
            y == call.ret
        IN  /\ \A i \in Present(x) :
                  y[i] = FDiv(FSub(x[i], Least(x)),
                              FSub(Greatest(x), Least(x)))
            /\ \A i \in Present(x) :
                  /\ x[i] = Least(x) => y[i] = Zero
                  /\ x[i] = Greatest(x) => y[i] = One
            /\ \A i, j \in Present(x) :
                  /\ FLt(x[i], x[j]) => FLt(y[i], y[j])
                  /\ x[i] = x[j] => y[i] = y[j]

\* C15 witness: min_max on three different values, the middle one mapped
\* strictly between 0 and 1.
C15_Witness ==
    /\ Normalized("min_max")
    /\ \E i, j, k \in Present(call.args.series) :
          /\ FLt(call.args.series[i], call.args.series[j])
          /\ FLt(call.args.series[j], call.args.series[k])
          /\ call.ret[i] = Zero
          /\ FLt(Zero, call.ret[j]) /\ FLt(call.ret[j], One)
          /\ call.ret[k] = One

\* C16: normalize_risk_factor with a method other than min_max and z_score
\* raises InvalidArgument and returns no series, whatever the series.
C16_UnknownMethodFails ==
    (IsCall("normalize_risk_factor")
     /\ call.args.method \notin {"min_max", "z_score"}) =>
        call.raised = "InvalidArgument" /\ call.ret = <<>>

\* C16 witness: a call with the method "log" that raised InvalidArgument.
C16_Witness ==
    /\ IsCall("normalize_risk_factor")
    /\ call.args.method = "log"
    /\ call.raised = "InvalidArgument"

\* The density the last call returned for area i is what the claim says:
\* population / area for a positive area, 0 otherwise.
DensityAsSpecified(i) ==
    LET population == zip_code_data.data[call.args.population_col][i]
        area == zip_code_data.data[call.args.area_col][i]
    IN  call.ret[i] = IF FGt(area, Zero) THEN FDiv(population, area)
                      ELSE Zero

\* C17: calculate_population_density returns population / area for every
\* area record of positive area and 0 for every record whose area is zero
\* or negative.
C17_DensityOfEveryArea ==
    Succeeded("calculate_population_density") =>
        \A i \in Rows(zip_code_data) : DensityAsSpecified(i)

\* C17 for the records whose area is positive or zero.
C17_NonNegativeAreas ==
    Succeeded("calculate_population_density") =>
        \A i \in Rows(zip_code_data) :
            FGe(zip_code_data.data[call.args.area_col][i], Zero)
            => DensityAsSpecified(i)

\* The engine has a table with neither the area column nor a geometry.
NoAreaSource(area_col) ==
    /\ ~IsNone(zip_code_data)
    /\ area_col \notin Columns(zip_code_data)
    /\ zip_code_data.geometry = "none"

\* C18: when the area field is absent from the table and the table has no
\* geometry, calculate_population_density and calculate_risk_scores fail
\* with MissingData, return nothing and leave the engine as it is.
C18_NoAreaIsMissingData ==
    /\ \A p \in {"population", "pop"}, a \in {"area_km2", "area"} :
          NoAreaSource(a) =>
              calculate_population_density(Self, p, a)
                  = Raise(Self, "MissingData")
    /\ \A args \in CalcArgs :
          NoAreaSource(args.area_col) =>
              calculate_risk_scores(Self, args) = Raise(Self, "MissingData")
    /\ (IsCall("calculate_population_density")
            \/ IsCall("calculate_risk_scores"))
       /\ NoAreaSource(call.args.area_col)
       => call.raised = "MissingData" /\ call.ret = <<>>

\* C18 witness: a scoring call that failed with MissingData on a table
\* without area column and geometry.
C18_Witness ==
    /\ IsCall("calculate_risk_scores")
    /\ NoAreaSource(call.args.area_col)
    /\ call.raised = "MissingData"

OptionalFactors == Factors \ {"population_density"}

\* The argument of calculate_risk_scores that names each optional factor.
ArgOf == [bird_density        |-> "bird_density_col",
          water_proximity     |-> "water_proximity_col",
          healthcare_capacity |-> "healthcare_col",
          vulnerability_index |-> "vulnerability_col"]

\* The result of the last scoring call had factor f been present: the same
\* engine and arguments, with the column in the table (the sample column
\* when the table has none) and its name passed.
ResultWith(f) ==
    calculate_risk_scores(
        [Self EXCEPT !.zip_code_data =
            IF f \in Columns(@) THEN @
            ELSE SetColumn(@, f, SampleColumn(f, @.index))],
        [call.args EXCEPT ![ArgOf[f]] = Opt(f)]).ret

\* C19: each optional factor whose column is absent or whose field is not
\* passed gets a _norm of 0 for every area (healthcare too) and no raw
\* column, every other column of the result is what it is with the factor
\* present, and the call succeeds whichever optional factors are missing.
C19_AbsentFactorIsZero ==
    /\ Succeeded("calculate_risk_scores") =>
          \A f \in OptionalFactors :
              ~Available(zip_code_data, call.args[ArgOf[f]]) =>
                  /\ risk_scores.data[NormName[f]]
                        = [i \in Rows(risk_scores) |-> Zero]
                  /\ f \notin Columns(risk_scores)
                  /\ \A g \in Factors \ {f} :
                        /\ risk_scores.data[NormName[g]]
                              = ResultWith(f).data[NormName[g]]
                        /\ g \in Columns(risk_scores)
                              <=> g \in Columns(ResultWith(f))
                        /\ g \in Columns(risk_scores) =>
                              risk_scores.data[g] = ResultWith(f).data[g]
    /\ (/\ ~IsNone(zip_code_data)
        /\ {"population", "area_km2"} \subseteq Columns(zip_code_data)) =>
          \A args \in CalcArgs :
              calculate_risk_scores(Self, args).raised = "ok"

\* C19 witness: a scoring call without the healthcare factor and with the
\* bird factor, whose bird_density_norm is not 0 everywhere and equals the
\* one computed with the healthcare factor present.
C19_Witness ==
    /\ Succeeded("calculate_risk_scores")
    /\ ~Available(zip_code_data, call.args.healthcare_col)
    /\ Available(zip_code_data, call.args.bird_density_col)
    /\ \E i \in Rows(risk_scores) :
          risk_scores.data["bird_density_norm"][i] # Zero
    /\ risk_scores.data["healthcare_capacity_norm"]
          = [i \in Rows(risk_scores) |-> Zero]
    /\ risk_scores.data["bird_density_norm"]
          = ResultWith("healthcare_capacity").data["bird_density_norm"]
    /\ "healthcare_capacity" \in Columns(ResultWith("healthcare_capacity"))

\* The weighted contributions of the five factors to the score of area i,
\* a factor without a configured weight counting for 0.
Contributions(i) ==
    [f \in Factors |->
        FMul(IF f \in DOMAIN risk_weights THEN risk_weights[f] ELSE Zero,
             risk_scores.data[NormName[f]][i])]

\* C20: the risk_score of every area is the sum over the five factor names
\* of the effective weight times the normalized contribution, a name
\* missing from the weights counting for 0 and never failing the call.
C20_CompositeScore ==
    /\ Succeeded("calculate_risk_scores") =>
          \A i \in Rows(risk_scores) :
              Scores(risk_scores)[i] = SumValues(Contributions(i), Factors)
    /\ (/\ ~IsNone(zip_code_data)
        /\ {"population", "area_km2"} \subseteq Columns(zip_code_data)
        /\ DOMAIN risk_weights # Factors) =>
          \A args \in CalcArgs :
              LET out == calculate_risk_scores(Self, args)
              IN  /\ out.raised = "ok"
                  /\ Len(Scores(out.ret)) = zip_code_data.index

\* C20 witness: a successful scoring call under weights that lack the
\* bird_density name, on a table whose bird_density_norm is not 0.
C20_Witness ==
    /\ Succeeded("calculate_risk_scores")
    /\ "bird_density" \notin DOMAIN risk_weights
    /\ \E i \in Rows(risk_scores) :
          /\ risk_scores.data["bird_density_norm"][i] # Zero
          /\ Scores(risk_scores)[i] = SumValues(Contributions(i), Factors)

\* The min-max rescaling of the value of row i of a column without missing
\* values: (v - min) / (max - min), 0 when the column has no spread.
Rescaled(x, i) ==
    IF NoSpread(x) THEN Zero
    ELSE FDiv(FSub(x[i], Least(x)), FSub(Greatest(x), Least(x)))

\* Rows i and j of the result are alike but for the healthcare columns.
AlikeButHealthcare(i, j) ==
    \A c \in Columns(risk_scores) \
             {"healthcare_capacity", "healthcare_capacity_norm",
              "risk_score", "risk_category"} :
        risk_scores.data[c][i] = risk_scores.data[c][j]

\* C21: when the healthcare column is present and requested, each area's
\* healthcare contribution is 1 minus its min-max rescaled capacity and no
\* other factor is inverted; of two areas alike but for a capacity of 1 and
\* 0, under a positive healthcare weight, the first contributes 0, the
\* second 1, and the second has the strictly higher risk_score.
C21_HealthcareInverted ==
    (Succeeded("calculate_risk_scores")
     /\ Available(zip_code_data, call.args.healthcare_col)) =>
        /\ \A i \in Rows(risk_scores) :
              risk_scores.data["healthcare_capacity_norm"][i]
                 = FSub(One, Rescaled(risk_scores.data["healthcare_capacity"],
                                      i))
        /\ \A g \in Factors \cap Columns(risk_scores) :
              g # "healthcare_capacity" =>
                  \A i \in Rows(risk_scores) :
                      risk_scores.data[NormName[g]][i]
                         = Rescaled(risk_scores.data[g], i)
        /\ (/\ risk_scores.index = 2
            /\ risk_scores.data["healthcare_capacity"] = <<One, Zero>>
            /\ AlikeButHealthcare(1, 2)
            /\ FGt(WeightGet(risk_weights, "healthcare_capacity"), Zero)) =>
              /\ risk_scores.data["healthcare_capacity_norm"] = <<Zero, One>>
              /\ FGt(Scores(risk_scores)[2], Scores(risk_scores)[1])

\* C21 witness: the two areas alike but for a capacity of 1 and 0, scored
\* with a positive healthcare weight: contributions 0 and 1, the second
\* area scored higher.
C21_Witness ==
    /\ Succeeded("calculate_risk_scores")
    /\ Available(zip_code_data, call.args.healthcare_col)
    /\ risk_scores.index = 2
    /\ risk_scores.data["healthcare_capacity"] = <<One, Zero>>
    /\ AlikeButHealthcare(1, 2)
    /\ FGt(WeightGet(risk_weights, "healthcare_capacity"), Zero)
    /\ risk_scores.data["healthcare_capacity_norm"] = <<Zero, One>>
    /\ FGt(Scores(risk_scores)[2], Scores(risk_scores)[1])
    /\ zip_code_data \in Scenarios

\* The last call scored the three areas of populations 1000, 5000 and 2000
\* with every optional factor requested, under the default weights.
PopulationScenario ==
    /\ Succeeded("calculate_risk_scores")
    /\ zip_code_data = ScenarioTable(<<R(1000), R(5000), R(2000)>>,
                                     <<Zero, Zero, Zero>>)
    /\ risk_weights = default_weights
    /\ \A f \in OptionalFactors : call.args[ArgOf[f]] = Opt(f)

\* Area 2 is scored above area 3 and area 3 above area 1.
PopulationOrdering ==
    /\ FGt(Scores(risk_scores)[2], Scores(risk_scores)[3])
    /\ FGt(Scores(risk_scores)[3], Scores(risk_scores)[1])

\* C22: in the scenario of populations 1000, 5000, 2000, equal areas, zero
\* optional factors and default weights, the areas are ordered 2 > 3 > 1 by
\* risk_score and only the population_density weight contributes: every
\* other normalized contribution is 0.
C22_PopulationScenario ==
    PopulationScenario =>
        /\ PopulationOrdering
        /\ \A f \in OptionalFactors : \A i \in Rows(risk_scores) :
              risk_scores.data[NormName[f]][i] = Zero
        /\ \A i \in Rows(risk_scores) :
              Scores(risk_scores)[i]
                 = FMul(risk_weights["population_density"],
                        risk_scores.data["population_density_norm"][i])

\* The ordering of C22 alone.
C22_OrderingAlone == PopulationScenario => PopulationOrdering

\* C23: the area table is read-only after construction: no call of
\* calculate_population_density, calculate_risk_scores or
\* get_high_risk_zips adds, removes or changes a column or a value of it,
\* also when the area has to be derived from the geometry.
C23_AreaTableReadOnly ==
    [][call'.op \in {"calculate_population_density", "calculate_risk_scores",
                     "get_high_risk_zips"}
       => zip_code_data' = zip_code_data]_vars

\* C23 for the tables that have the area column.
C23_WithAreaColumn ==
    [][(/\ call'.op \in {"calculate_population_density",
                         "calculate_risk_scores", "get_high_risk_zips"}
        /\ ~IsNone(zip_code_data)
        /\ "area_km2" \in Columns(zip_code_data))
       => zip_code_data' = zip_code_data]_vars

\* Every area is scored 0 by every scoring call the engine can now make
\* on a table with population and area, and by the last call if it was one.
EveryScoreZero ==
    /\ (/\ ~IsNone(zip_code_data)
        /\ {"population", "area_km2"} \subseteq Columns(zip_code_data)) =>
          \A args \in CalcArgs :
              LET out == calculate_risk_scores(Self, args)
              IN  /\ out.raised = "ok"
                  /\ \A i \in Rows(out.ret) : Scores(out.ret)[i] = Zero
    /\ Succeeded("calculate_risk_scores") =>
          \A i \in Rows(risk_scores) : Scores(risk_scores)[i] = Zero

InUnitInterval(x) == IsFinite(x) /\ FLe(Zero, x) /\ FLe(x, One)

\* The effective weights are not negative and their raw sum is positive.
ProperWeights == WeightsNonNegative /\ FGt(RawTotal, Zero)

\* C25: every result table produced under non-negative weights of positive
\* sum has the five _norm columns, every value of them in [0, 1], and
\* every risk_score in [0, 1].
C25_ResultInUnit ==
    (Succeeded("calculate_risk_scores") /\ ProperWeights) =>
        /\ \A f \in Factors : NormName[f] \in Columns(risk_scores)
        /\ \A f \in Factors : \A i \in Rows(risk_scores) :
              InUnitInterval(risk_scores.data[NormName[f]][i])
        /\ \A i \in Rows(risk_scores) :
              InUnitInterval(Scores(risk_scores)[i])

\* C25 witness: a result with an absent factor at 0, an inverted
\* healthcare contribution of 1 and a risk_score of exactly 1.
C25_Witness ==
    /\ Succeeded("calculate_risk_scores")
    /\ ProperWeights
    /\ "bird_density" \notin Columns(risk_scores)
    /\ \E i \in Rows(risk_scores) :
          /\ risk_scores.data["bird_density_norm"][i] = Zero
          /\ risk_scores.data["healthcare_capacity_norm"][i] = One
          /\ Scores(risk_scores)[i] = One

\* The last call was a successful query with top_n given.
TopNQuery == Succeeded("get_high_risk_zips") /\ call.args.top_n # <<>>

\* The risk_score of the k-th record the last query returned.
Returned(k) == Scores(risk_scores)[call.ret[k]]

\* C26 as stated: the records a query with top_n returns are in strictly
\* descending order, each with a strictly lower risk_score than the record
\* before it.
C26_StrictlyDescending ==
    TopNQuery =>
        \A k \in 1 .. Len(call.ret) - 1 : FGt(Returned(k), Returned(k + 1))

\* C26, amended: no record a query with top_n returns has a higher
\* risk_score than a record before it, each record is returned once, and
\* the order is strictly descending when no two of them have the same score.
C26_NeverAscending ==
    TopNQuery =>
        /\ \A k, m \in DOMAIN call.ret :
              k < m => (FGe(Returned(k), Returned(m))
                        /\ call.ret[k] # call.ret[m])
        /\ (\A k, m \in DOMAIN call.ret : k # m => Returned(k) # Returned(m))
           => \A k \in 1 .. Len(call.ret) - 1 :
                 FGt(Returned(k), Returned(k + 1))

\* C26 witness: a query with top_n = 2 returned two records of the same
\* risk_score.
C26_Witness ==
    /\ TopNQuery
    /\ call.args.top_n = <<2>>
    /\ Len(call.ret) = 2
    /\ call.ret[1] # call.ret[2]
    /\ Returned(1) = Returned(2)

\* C27: once a scoring call has succeeded the cached result is never
\* absent again, whatever calls follow (scoring calls that succeed or fail,
\* queries, exports, loading a table), so every later query succeeds.
C27_ScoredForGood ==
    scored =>
        /\ ~IsNone(risk_scores)
        /\ ~IsNone(risk_map_gdf)
        /\ \A threshold \in Thresholds(risk_scores), top_n \in TopNs :
              \A out \in get_high_risk_zips(Self, threshold, top_n) :
                  out.raised = "ok"
        /\ IsCall("get_high_risk_zips") => call.raised = "ok"

\* C27 witness: a scoring call that failed after an earlier one had
\* succeeded, the cached result still there.
C27_Witness ==
    /\ scored
    /\ IsCall("calculate_risk_scores")
    /\ call.raised # "ok"
    /\ ~IsNone(risk_scores)

\* C28: whenever a cached result exists it was computed from the engine's
\* current area table, one record per row of it: some scoring call on the
\* current table gives exactly the cached result.
C28_ResultOfCurrentTable ==
    ~IsNone(risk_scores) =>
        /\ ~IsNone(zip_code_data)
        /\ risk_scores.index = zip_code_data.index
        /\ \E args \in CalcArgs :
              LET out == calculate_risk_scores(Self, args)
              IN  out.raised = "ok" /\ out.ret = risk_scores

\* C29: a healthcare column with the same value for every area
\* contributes nothing: each healthcare_capacity_norm is 0, as it is when
\* the column is absent.
C29_FlatHealthcareIsZero ==
    (/\ Succeeded("calculate_risk_scores")
     /\ Available(zip_code_data, call.args.healthcare_col)
     /\ \A i, j \in Rows(zip_code_data) :
           zip_code_data.data["healthcare_capacity"][i]
              = zip_code_data.data["healthcare_capacity"][j]) =>
        \A i \in Rows(risk_scores) :
            risk_scores.data["healthcare_capacity_norm"][i] = Zero

\* Both threads have returned from calls with different field arguments.
BothDone ==
    /\ \A t \in Threads : threads[t].pc = "done"
    /\ threads["A"].args # threads["B"].args

\* The cached tables both come from the call of thread t.
BothFrom(t) ==
    /\ risk_scores = threads[t].results
    /\ risk_map_gdf.results = threads[t].results

\* C30 as stated: when two scoring calls with different field arguments
\* interleave, the last write wins as a whole: once both have finished,
\* risk_scores and risk_map_gdf come from the same one of the two calls.
C30_LastWriteWinsAsAWhole ==
    BothDone => \E t \in Threads : BothFrom(t)

\* C30, amended: the last write wins for each cached table on its own:
\* risk_scores is the whole result of the call that assigned it last and
\* risk_map_gdf holds the whole result of the call that assigned it last.
C30_LastWriteWinsPerTable ==
    /\ writer.risk_scores # "none" =>
          risk_scores = threads[writer.risk_scores].results
    /\ writer.risk_map_gdf # "none" =>
          risk_map_gdf.results = threads[writer.risk_map_gdf].results
    /\ BothDone =>
          /\ \E t \in Threads : risk_scores = threads[t].results
          /\ \E t \in Threads : risk_map_gdf.results = threads[t].results

\* C30 witness: both calls have finished, and the two cached tables come
\* from different calls and differ.
C30_Witness ==
    /\ BothDone
    /\ writer.risk_scores # writer.risk_map_gdf
    /\ risk_scores = threads[writer.risk_scores].results
    /\ risk_map_gdf.results = threads[writer.risk_map_gdf].results
    /\ risk_map_gdf.results # risk_scores

====
